---- MODULE Spec2Model ----
(***************************************************************************)
(* Bug-Emporium backend (src/backend/server.js): the in-process TTL cache, *)
(* the cache-aside wrapper around the GitLab API and the linked-issue      *)
(* spider of the Feature Funhouse view.                                    *)
(*                                                                         *)
(* The specifications share the cache definitions:                         *)
(*   Spec            clients calling getCachedData / setCachedData /       *)
(*                   clearCache / cachedGitlabApiCall on a shared Map      *)
(*                   while Date.now() advances;                            *)
(*   SpiderSpec      one traversal of spiderLinkedIssues over an issue     *)
(*                   graph, its fetches going through the cache;           *)
(*   FairSpiderSpec  SpiderSpec with every request settling and every      *)
(*                   continuation resumed.                                 *)
(***************************************************************************)
EXTENDS Integers, Sequences, FiniteSets, Bags, TLC

----------------------------------------------------------------------------
(* Bounds of the model *)

\* Date.now() runs over 0..MaxTime (milliseconds since the process started)
MaxTime == 1
\* ttl arguments are drawn from 1..MaxTtl
MaxTtl == 2
\* the issue graphs are chains of up to ChainLen references
ChainLen == 10
\* upstream requests of one traversal that may fail
MaxFailures == 1
\* traversals of one root that may be followed by another
MaxRuns == 1

----------------------------------------------------------------------------
(* JavaScript values *)

JsNull == [type |-> "null"]
JsNumber(n) == [type |-> "number", val |-> n]
JsArray(s) == [type |-> "array", val |-> s]
JsObject(r) == [type |-> "object", val |-> r]
JsUndefined == [type |-> "undefined"]
\* a string, as the sequence of its pieces
JsString(s) == [type |-> "string", val |-> s]

\* ToBoolean, as applied by `if (cachedData)` and `if (cached && ...)`
Truthy(v) ==
  CASE v.type = "null" -> FALSE
    [] v.type = "undefined" -> FALSE
    [] v.type = "number" -> v.val # 0
    [] v.type = "string" -> v.val # <<>>
    [] OTHER -> TRUE

\* response bodies the upstream API may send to the generic clients:
\* the number 0 and an object
ResponseValues == {JsNumber(0), JsObject([id |-> 1])}

\* the clients use two cache keys (the strings getCacheKey builds for two
\* endpoints) and run as two concurrent request handlers
Keys == {<<"ep", "a">>, <<"ep", "b">>}
Handlers == {"h1", "h2"}
TtlArgs == 1..MaxTtl

----------------------------------------------------------------------------
(* State *)

VARIABLES
  now,          \* Date.now()
  cache,        \* const cache = new Map(): key -> {data, timestamp, ttl}
  inFlight,     \* the cachedGitlabApiCall invocations suspended at their
                \* `await gitlabApi.get`: a bag of {key, ttl}
  last,         \* what the step leading to this state observed, when it
                \* was a getCachedData or a step of cachedGitlabApiCall
  written,      \* history: per key, the entry of the latest setCachedData
                \* not followed by clearCache (never touched by eviction)
  failedKeys,   \* history: keys whose latest upstream call threw while the
                \* Map held no entry for them, and not stored since
  cleared       \* history: keys that were set, then dropped by clearCache,
                \* and not set since

cacheVars == <<now, cache, inFlight, last, written, failedKeys, cleared>>

VARIABLES
  issues,       \* upstream: iid -> {description, notes} of the project's issues
  stack,        \* the activations of spiderLinkedIssues, innermost last
  visited,      \* the Set shared by all activations of one traversal
  rootIssueId,  \* iid of the feature issue the traversal started from
  result,       \* the tree the outermost activation returned
  expansions,   \* history: the iids handed to extractLinkedIssueIds, in order
  fetches,      \* history: number of upstream requests issued
  failures,     \* history: number of upstream requests that failed
  failed,       \* history: the requests that failed, in order: which
                \* request, of which activation's issue, for which id
  runs          \* history: the traversals completed before the current
                \* one: the tree each returned

spiderVars ==
  <<issues, stack, visited, rootIssueId, result, expansions, fetches, failures,
    failed, runs>>

VARIABLES
  keyCalls      \* two calls of getCacheKey with the same parameters:
                \*   endpoint       the endpoint argument
                \*   params         the params argument as the first caller
                \*                  wrote the literal: its name/value pairs
                \*                  in the order written
                \*   permuted       the same pairs in the second caller's order
                \*   keyOfParams    the key returned for params
                \*   keyOfPermuted  the key returned for permuted

keyVars == <<keyCalls>>

VARIABLES
  upstream,     \* GitLab and the environment of the server:
                \*   configured  GITLAB_TOKEN and GITLAB_GROUP_ID are set
                \*   pids        project_id of each issue with the emporium label
                \*   features    iids of the issues with the funhouse label
  route         \* the handler of an aggregate route:
                \*   kind      "issues" or "funhouse"
                \*   pc        where the handler stands
                \*   page      `page` of the pagination loop
                \*   all       allIssues / allFeatures
                \*   pending   project ids whose request has not settled
                \*   results   the {projectId, name} the lookups returned, in the
                \*             order they settled
                \*   trees     featureTrees
                \*   next      index of the feature the spider loop is at
                \*   requests  requests answered so far
                \*   response  what the latest request was answered with
                \*   served    history: how the latest request was answered:
                \*             "error", "cached" (the stored aggregate
                \*             response) or "built"
                \*   sent      history: keys the latest request asked
                \*             upstream for, the spider's apart
                \*   ran       history: traversals the latest request ran
                \*   lost      history: project ids whose request failed
                \*             during the latest request
                \*   cut       history: the page whose request failed
                \*             during the latest request, 0 if none

routeVars == <<upstream, route>>

vars == <<cacheVars, spiderVars, keyVars, routeVars>>

NoEntry == [type |-> "none"]
NoOp == [op |-> "none"]

\* the Map without `key` (Map.prototype.delete)
MapDelete(c, key) == [k \in (DOMAIN c) \ {key} |-> c[k]]
\* the Map with `key` bound to `e` (Map.prototype.set)
MapSet(c, key, e) == [k \in (DOMAIN c) \cup {key} |-> IF k = key THEN e ELSE c[k]]
EmptyMap == [k \in {} |-> NoEntry]
EntryOf(c, key) == IF key \in DOMAIN c THEN c[key] ELSE NoEntry

----------------------------------------------------------------------------
(* Cache helper functions *)

\* the condition of the first `if` of getCachedData
CacheHit(c, key, ttl, t) ==
  key \in DOMAIN c /\ t - c[key].timestamp < ttl

\* getCachedData(key, ttl): the value returned
getCachedData(c, key, ttl, t) ==
  IF CacheHit(c, key, ttl, t) THEN c[key].data ELSE JsNull

\* getCachedData(key, ttl): the Map it leaves behind (cache.delete on expiry)
getCachedDataEvict(c, key, ttl, t) ==
  IF key \in DOMAIN c /\ ~CacheHit(c, key, ttl, t) THEN MapDelete(c, key) ELSE c

\* setCachedData(key, data, ttl)
setCachedData(c, key, data, ttl, t) ==
  MapSet(c, key, [data |-> data, timestamp |-> t, ttl |-> ttl])

\* (a variant that leaves the Map as it is)
clearCacheKeepsEntries == cache
\* clearCache()
clearCache == EmptyMap

----------------------------------------------------------------------------
(* Operations of the clients *)

\* what an operation on `key` called with `ttl` returned, and the number
\* of upstream requests the call had issued by then
Observation(op, key, ttl, returned, sent) ==
  [op |-> op, key |-> key, ttl |-> ttl, result |-> returned, sent |-> sent]

\* Date.now() advances
Tick ==
  /\ now < MaxTime
  /\ now' = now + 1
  /\ last' = NoOp
  /\ UNCHANGED <<cache, inFlight, written, failedKeys, cleared, spiderVars,
                 keyVars, routeVars>>

\* a route handler reads the cache directly
Get(key, ttl) ==
  /\ cache' = getCachedDataEvict(cache, key, ttl, now)
  /\ last' = Observation("get", key, ttl, getCachedData(cache, key, ttl, now), 0)
  /\ UNCHANGED <<now, inFlight, written, failedKeys, cleared, spiderVars,
                 keyVars, routeVars>>

\* a route handler writes the cache directly
Set(key, data, ttl) ==
  /\ cache' = setCachedData(cache, key, data, ttl, now)
  /\ written' = setCachedData(written, key, data, ttl, now)
  /\ failedKeys' = failedKeys \ {key}
  /\ cleared' = cleared \ {key}
  /\ last' = NoOp
  /\ UNCHANGED <<now, inFlight, spiderVars, keyVars, routeVars>>

\* (a variant in which clearing also drops the requests in flight)
ClearCancelsCalls ==
  /\ cache' = clearCache
  /\ written' = EmptyMap
  /\ cleared' = cleared \cup DOMAIN written
  /\ last' = NoOp
  /\ inFlight' = EmptyBag
  /\ UNCHANGED <<now, failedKeys, spiderVars, keyVars, routeVars>>

\* POST /api/cache/clear
Clear ==
  /\ cache' = clearCache
  /\ written' = EmptyMap
  /\ cleared' = cleared \cup DOMAIN written
  /\ last' = NoOp
  /\ UNCHANGED <<now, inFlight, failedKeys, spiderVars, keyVars, routeVars>>

\* cachedGitlabApiCall up to its `await`: the lookup, and either the return
\* of the cached data or the upstream request
CallBegin(key, ttl) ==
  /\ BagCardinality(inFlight) < Cardinality(Handlers)
  /\ cache' = getCachedDataEvict(cache, key, ttl, now)
  /\ LET cachedData == getCachedData(cache, key, ttl, now) IN
       IF Truthy(cachedData)
       THEN /\ last' = Observation("hit", key, ttl, cachedData, 0)
            /\ inFlight' = inFlight
       ELSE /\ last' = Observation("request", key, ttl, JsNull, 1)
            /\ inFlight' = inFlight (+) SetToBag({[key |-> key, ttl |-> ttl]})
  /\ UNCHANGED <<now, written, failedKeys, cleared, spiderVars, keyVars, routeVars>>

\* (a variant in which a response does not overwrite an entry stored
\* while its request was in flight)
CallRespondKeepsFirst(call, data) ==
  /\ BagIn(call, inFlight)
  /\ cache' = IF call.key \in DOMAIN cache THEN cache
              ELSE setCachedData(cache, call.key, data, call.ttl, now)
  /\ written' = IF call.key \in DOMAIN cache THEN written
                ELSE setCachedData(written, call.key, data, call.ttl, now)
  /\ failedKeys' = failedKeys \ {call.key}
  /\ cleared' = cleared \ {call.key}
  /\ last' = Observation("response", call.key, call.ttl, data, 1)
  /\ inFlight' = inFlight (-) SetToBag({call})
  /\ UNCHANGED <<now, spiderVars, keyVars, routeVars>>

\* the upstream request resolves: setCachedData, return response.data
CallRespond(call, data) ==
  /\ BagIn(call, inFlight)
  /\ cache' = setCachedData(cache, call.key, data, call.ttl, now)
  /\ written' = setCachedData(written, call.key, data, call.ttl, now)
  /\ failedKeys' = failedKeys \ {call.key}
  /\ cleared' = cleared \ {call.key}
  /\ last' = Observation("response", call.key, call.ttl, data, 1)
  /\ inFlight' = inFlight (-) SetToBag({call})
  /\ UNCHANGED <<now, spiderVars, keyVars, routeVars>>

\* (a variant that stores the rejection under the key)
CallFailCachingError(call) ==
  /\ BagIn(call, inFlight)
  /\ cache' = setCachedData(cache, call.key, JsNull, call.ttl, now)
  /\ failedKeys' = failedKeys \cup {call.key}
  /\ last' = Observation("throw", call.key, call.ttl, JsNull, 1)
  /\ inFlight' = inFlight (-) SetToBag({call})
  /\ UNCHANGED <<now, written, cleared, spiderVars, keyVars, routeVars>>

\* the upstream request rejects (network error, timeout, non-2xx): the
\* rejection leaves cachedGitlabApiCall through the `await`
CallFail(call) ==
  /\ BagIn(call, inFlight)
  /\ failedKeys' = IF call.key \in DOMAIN cache THEN failedKeys
                   ELSE failedKeys \cup {call.key}
  /\ last' = Observation("throw", call.key, call.ttl, JsNull, 1)
  /\ inFlight' = inFlight (-) SetToBag({call})
  /\ UNCHANGED <<now, cache, written, cleared, spiderVars, keyVars, routeVars>>

----------------------------------------------------------------------------
(* Issue texts and reference extraction *)

\* A description or a note body is modelled by the matches that
\* /#(\d+)/g finds in it, in order: each match is the digit string that
\* follows the hash mark.
RECURSIVE Digits(_)
Digits(n) == IF n < 10 THEN <<n>> ELSE Append(Digits(n \div 10), n % 10)

\* parseInt(match.substring(1)) of a digit string
RECURSIVE parseInt(_)
parseInt(ds) ==
  IF Len(ds) = 0 THEN 0
  ELSE 10 * parseInt(SubSeq(ds, 1, Len(ds) - 1)) + ds[Len(ds)]

InSeq(x, sq) == \E i \in 1..Len(sq) : sq[i] = x

\* Set.prototype.add on a Set kept in insertion order
SetAdd(sq, x) == IF InSeq(x, sq) THEN sq ELSE Append(sq, x)

\* matches.forEach(match => { const id = parseInt(...);
\*                            if (id && id !== issue.iid) linkedIds.add(id) })
RECURSIVE AddMatches(_, _, _)
AddMatches(linkedIds, matches, iid) ==
  IF Len(matches) = 0 THEN linkedIds
  ELSE LET id == parseInt(Head(matches)) IN
       AddMatches(IF id # 0 /\ id # iid THEN SetAdd(linkedIds, id) ELSE linkedIds,
                  Tail(matches), iid)

\* notesData.forEach(note => { if (note.body) ... })
RECURSIVE AddNotes(_, _, _)
AddNotes(linkedIds, notesData, iid) ==
  IF Len(notesData) = 0 THEN linkedIds
  ELSE AddNotes(AddMatches(linkedIds, Head(notesData).body, iid),
                Tail(notesData), iid)

\* extractLinkedIssueIds once the notes lookup has settled: notesData is
\* the array the lookup returned, or the empty array when it threw
extractLinkedIssueIds(issue, notesData) ==
  AddNotes(AddMatches(<<>>, issue.description, issue.iid), notesData, issue.iid)

----------------------------------------------------------------------------
(* The linked-issue spider *)

\* const CACHE_TTL = 10 * 60 * 1000, the default ttl of cachedGitlabApiCall
CACHE_TTL == 10 * 60 * 1000

\* maxDepth = 5, the default the funhouse route runs the spider with
DefaultMaxDepth == 5

\* every linked issue is fetched from the project of the issue that
\* mentions it, so one traversal stays inside the root's project
ProjectId == 1

\* cache keys of `/projects/${project_id}/issues/${iid}/notes` and of
\* `/projects/${project_id}/issues/${linkedId}`
NotesKey(iid) == <<"notes", ProjectId, iid>>
IssueKey(iid) == <<"issue", ProjectId, iid>>

\* what upstream answers
IssueObject(iid) ==
  JsObject([iid |-> iid, project_id |-> ProjectId,
            description |-> issues[iid].description])
NotesArray(iid) == JsArray(issues[iid].notes)

Node(iid, linkedIssues) == [issue |-> iid, linkedIssues |-> linkedIssues]

SeqToSet(sq) == {sq[i] : i \in 1..Len(sq)}

RECURSIVE Concat(_)
Concat(seqs) == IF Len(seqs) = 0 THEN <<>> ELSE Head(seqs) \o Concat(Tail(seqs))

\* the iids of a tree, parents before children, children in order
RECURSIVE Preorder(_)
Preorder(node) ==
  <<node.issue>> \o
    Concat([i \in 1..Len(node.linkedIssues) |-> Preorder(node.linkedIssues[i])])

Frame(issue, depth) ==
  [pc |-> "enter", issue |-> issue, depth |-> depth,
   linkedIds |-> <<>>, linkedIssues |-> <<>>]

Top == stack[Len(stack)]
SetTop(f) == [stack EXCEPT ![Len(stack)] = f]

\* `return node` of the innermost activation: the caller pushes the node on
\* its linkedIssues and goes on with its loop; the outermost activation
\* hands the tree to the route
Return(node) ==
  IF Len(stack) = 1
  THEN /\ stack' = <<>>
       /\ result' = node
  ELSE /\ stack' = [SubSeq(stack, 1, Len(stack) - 1) EXCEPT ![Len(stack) - 1] =
                      [@ EXCEPT !.pc = "loop",
                                !.linkedIssues = Append(@, node)]]
       /\ result' = result

\* a rejected request of the traversal: the notes of `parent`, or the
\* detail of the issue `id` that `parent` mentions
Failure(kind, parent, id) == [kind |-> kind, parent |-> parent, id |-> id]

\* the guard of spiderLinkedIssues
GuardPastDepth(issue, depth) == depth > DefaultMaxDepth \/ issue.iid \in visited
Guard(issue, depth) == depth >= DefaultMaxDepth \/ issue.iid \in visited

\* visited.add(issue.iid)
VisitedAddNothing(iid) == visited
VisitedAdd(iid) == visited \cup {iid}

\* the `continue` test of the loop over linkedIds
SkipRootOnly(linkedId) == linkedId = rootIssueId
Skip(linkedId) == linkedId = rootIssueId \/ linkedId \in visited

\* the loop moves on to the next linkedId
NextIdSame(f) == f
NextId(f) == [f EXCEPT !.linkedIds = Tail(@)]

\* the route calls spiderLinkedIssues(feature, gitlabApi): a fresh visited
\* Set, rootIssueId = feature.iid, depth 0
SpiderStart ==
  /\ Len(stack) = 0 /\ result = NoEntry
  /\ stack' = <<Frame(IssueObject(1).val, 0)>>
  /\ visited' = {}
  /\ rootIssueId' = 1
  /\ UNCHANGED <<cacheVars, keyVars, routeVars, issues, result, expansions, fetches, failures,
                 failed, runs>>

\* the route spiders the same feature again (a later request, the entries
\* of the earlier traversal still in the Map): again a fresh visited Set,
\* rootIssueId = feature.iid, depth 0
SpiderAgain ==
  /\ Len(stack) = 0 /\ result # NoEntry
  /\ Len(runs) < MaxRuns
  /\ runs' = Append(runs, result)
  /\ stack' = <<Frame(IssueObject(1).val, 0)>>
  /\ visited' = {}
  /\ rootIssueId' = 1
  /\ result' = NoEntry
  /\ expansions' = <<>>
  /\ fetches' = 0
  /\ UNCHANGED <<cacheVars, keyVars, routeVars, issues, failures, failed>>

\* entry of an activation: the guard; then visited.add, and
\* extractLinkedIssueIds up to the notes lookup of cachedGitlabApiCall
SpiderEnter ==
  /\ Len(stack) > 0 /\ Top.pc = "enter"
  /\ IF Guard(Top.issue, Top.depth)
     THEN /\ Return(Node(Top.issue.iid, <<>>))
          /\ UNCHANGED <<cacheVars, keyVars, routeVars, issues, visited, rootIssueId, expansions,
                         fetches, failures, failed, runs>>
     ELSE LET key == NotesKey(Top.issue.iid)
              cachedData == getCachedData(cache, key, CACHE_TTL, now) IN
          /\ visited' = VisitedAdd(Top.issue.iid)
          /\ expansions' = Append(expansions, Top.issue.iid)
          /\ cache' = getCachedDataEvict(cache, key, CACHE_TTL, now)
          /\ IF Truthy(cachedData)
             THEN /\ stack' = SetTop([Top EXCEPT !.pc = "loop",
                       !.linkedIds = extractLinkedIssueIds(Top.issue, cachedData.val)])
                  /\ fetches' = fetches
             ELSE /\ stack' = SetTop([Top EXCEPT !.pc = "notes"])
                  /\ fetches' = fetches + 1
          /\ UNCHANGED <<keyVars, routeVars, now, inFlight, last, cleared, written, failedKeys, issues,
                         rootIssueId, result, failures, failed, runs>>

\* (a variant in which the notes are requested without the cache-aside
\* wrapper: the response is used and not stored)
NotesRespondNoStore ==
  /\ Len(stack) > 0 /\ Top.pc = "notes"
  /\ LET notesData == NotesArray(Top.issue.iid) IN
     stack' = SetTop([Top EXCEPT !.pc = "loop",
                !.linkedIds = extractLinkedIssueIds(Top.issue, notesData.val)])
  /\ UNCHANGED <<cacheVars, keyVars, routeVars, issues, visited, rootIssueId,
                 result, expansions, fetches, failures, failed, runs>>

\* the notes request resolves: cachedGitlabApiCall stores and returns it
NotesRespond ==
  /\ Len(stack) > 0 /\ Top.pc = "notes"
  /\ LET notesData == NotesArray(Top.issue.iid) IN
     /\ cache' = setCachedData(cache, NotesKey(Top.issue.iid), notesData, CACHE_TTL, now)
     /\ written' = setCachedData(written, NotesKey(Top.issue.iid), notesData, CACHE_TTL, now)
     /\ stack' = SetTop([Top EXCEPT !.pc = "loop",
                   !.linkedIds = extractLinkedIssueIds(Top.issue, notesData.val)])
  /\ UNCHANGED <<keyVars, routeVars, now, inFlight, last, cleared, failedKeys, issues, visited, rootIssueId,
                 result, expansions, fetches, failures, failed, runs>>

\* (a variant in which the rejection discards the ids already found)
NotesFailDropsIds ==
  /\ Len(stack) > 0 /\ Top.pc = "notes"
  /\ failures < MaxFailures
  /\ failures' = failures + 1
  /\ failed' = Append(failed, Failure("notes", Top.issue.iid, Top.issue.iid))
  /\ stack' = SetTop([Top EXCEPT !.pc = "loop", !.linkedIds = <<>>])
  /\ UNCHANGED <<cacheVars, keyVars, routeVars, issues, visited, rootIssueId, result, expansions,
                 fetches, runs>>

\* the notes request rejects: caught inside extractLinkedIssueIds, which
\* returns the ids found in the description
NotesFail ==
  /\ Len(stack) > 0 /\ Top.pc = "notes"
  /\ failures < MaxFailures
  /\ failures' = failures + 1
  /\ failed' = Append(failed, Failure("notes", Top.issue.iid, Top.issue.iid))
  /\ stack' = SetTop([Top EXCEPT !.pc = "loop",
                !.linkedIds = extractLinkedIssueIds(Top.issue, <<>>)])
  /\ UNCHANGED <<cacheVars, keyVars, routeVars, issues, visited, rootIssueId, result, expansions,
                 fetches, runs>>

\* one turn of `for (const linkedId of linkedIds)`, up to the lookup of the
\* linked issue; after the last id, `return { issue, linkedIssues }`
SpiderLoop ==
  /\ Len(stack) > 0 /\ Top.pc = "loop"
  /\ IF Len(Top.linkedIds) = 0
     THEN /\ Return(Node(Top.issue.iid, Top.linkedIssues))
          /\ UNCHANGED <<cacheVars, keyVars, routeVars, issues, visited, rootIssueId, expansions,
                         fetches, failures, failed, runs>>
     ELSE LET linkedId == Head(Top.linkedIds)
              rest == NextId(Top)
              key == IssueKey(linkedId)
              cachedData == getCachedData(cache, key, CACHE_TTL, now) IN
          IF Skip(linkedId)
          THEN /\ stack' = SetTop(rest)
               /\ UNCHANGED <<cacheVars, keyVars, routeVars, issues, visited, rootIssueId, result,
                              expansions, fetches, failures, failed, runs>>
          ELSE /\ cache' = getCachedDataEvict(cache, key, CACHE_TTL, now)
               /\ IF Truthy(cachedData)
                  THEN /\ stack' = Append(SetTop(rest),
                                          Frame(cachedData.val, Top.depth + 1))
                       /\ fetches' = fetches
                  ELSE /\ stack' = SetTop([Top EXCEPT !.pc = "detail"])
                       /\ fetches' = fetches + 1
               /\ UNCHANGED <<keyVars, routeVars, now, inFlight, last, cleared, written, failedKeys, issues,
                              visited, rootIssueId, result, expansions, failures,
                              failed, runs>>

\* the request for the linked issue resolves: stored, returned, and
\* spiderLinkedIssues is called on it one level deeper
DetailRespond ==
  /\ Len(stack) > 0 /\ Top.pc = "detail"
  /\ LET linkedId == Head(Top.linkedIds)
         linkedIssue == IssueObject(linkedId) IN
     /\ linkedId \in DOMAIN issues
     /\ cache' = setCachedData(cache, IssueKey(linkedId), linkedIssue, CACHE_TTL, now)
     /\ written' = setCachedData(written, IssueKey(linkedId), linkedIssue, CACHE_TTL, now)
     /\ stack' = Append(SetTop([NextId(Top) EXCEPT !.pc = "loop"]),
                        Frame(linkedIssue.val, Top.depth + 1))
  /\ UNCHANGED <<keyVars, routeVars, now, inFlight, last, cleared, failedKeys, issues, visited, rootIssueId,
                 result, expansions, fetches, failures, failed, runs>>

\* (a variant in which the rejection leaves the loop and is caught by the
\* outer try, which returns the issue without children)
DetailFailAborts ==
  /\ Len(stack) > 0 /\ Top.pc = "detail"
  /\ failures < MaxFailures
  /\ failures' = failures + 1
  /\ failed' = Append(failed, Failure("detail", Top.issue.iid, Head(Top.linkedIds)))
  /\ Return(Node(Top.issue.iid, <<>>))
  /\ UNCHANGED <<cacheVars, keyVars, routeVars, issues, visited, rootIssueId, expansions, fetches, runs>>

\* the request for the linked issue rejects: caught by the inner try of the
\* loop, which warns and goes on with the next id
DetailFail ==
  /\ Len(stack) > 0 /\ Top.pc = "detail"
  /\ failures < MaxFailures
  /\ failures' = failures + 1
  /\ failed' = Append(failed, Failure("detail", Top.issue.iid, Head(Top.linkedIds)))
  /\ stack' = SetTop([NextId(Top) EXCEPT !.pc = "loop"])
  /\ UNCHANGED <<cacheVars, keyVars, routeVars, issues, visited, rootIssueId, result, expansions,
                 fetches, runs>>

----------------------------------------------------------------------------
(* The issue graphs the spider is run on *)

\* issues 1..len+1, issue i mentioning #(i+1) in its description
ChainIssues(len) ==
  [i \in 1..(len + 1) |->
     [description |-> IF i <= len THEN <<Digits(i + 1)>> ELSE <<>>,
      notes |-> <<>>]]

\* one more mention `#id` written into issue `src`: at the start or at the
\* end of its description, or in a note of its own
WithMention(g, src, id, place) ==
  [g EXCEPT ![src] =
     CASE place = "before" -> [@ EXCEPT !.description = <<Digits(id)>> \o @]
       [] place = "after" -> [@ EXCEPT !.description = Append(@, Digits(id))]
       [] OTHER -> [@ EXCEPT !.notes = Append(@, [body |-> <<Digits(id)>>])]]

Places == {"before", "after", "note"}

\* a chain of 1..ChainLen references, alone or with one further mention of
\* any id 0..len+1 in any of its issues
IssueGraphs ==
  UNION {{ChainIssues(len)} \cup
         {WithMention(ChainIssues(len), src, id, place) :
            src \in 1..(len + 1), id \in 0..(len + 1), place \in Places} :
         len \in 1..ChainLen}

----------------------------------------------------------------------------
(* Parameter objects and getCacheKey *)

\* A string is modelled by its UTF-16 code units.  A parameter name is one of
\* "a", "ab", "B", "2", "10": a prefix pair, an upper-case letter and two
\* integer-like names.
ParamNames == {<<97>>, <<97, 98>>, <<66>>, <<50>>, <<49, 48>>}

\* the values a parameter may carry
ParamValues == {JsNumber(1), JsUndefined}

Endpoints == {"issues", "gitlab:/projects/5"}

\* a literal has at most MaxParams properties
MaxParams == 3

\* the comparison of the default Array.prototype.sort: by code units
RECURSIVE StrLess(_, _)
StrLess(a, b) ==
  IF Len(b) = 0 THEN FALSE
  ELSE IF Len(a) = 0 THEN TRUE
  ELSE IF a[1] # b[1] THEN a[1] < b[1]
  ELSE StrLess(Tail(a), Tail(b))

\* an integer-like property name (a canonical array index)
IsArrayIndex(name) ==
  /\ Len(name) > 0
  /\ \A i \in 1..Len(name) : name[i] \in 48..57
  /\ (Len(name) = 1 \/ name[1] # 48)

IndexOf(name) == parseInt([i \in 1..Len(name) |-> name[i] - 48])

\* An object is the sequence of its own properties in the order the engine
\* enumerates them: integer-like names in ascending numeric order, then the
\* other names in the order they were created.
ObjectHas(o, name) == \E i \in 1..Len(o) : o[i].name = name
ObjectGet(o, name) ==
  IF ObjectHas(o, name)
  THEN o[CHOOSE i \in 1..Len(o) : o[i].name = name].value
  ELSE JsUndefined

\* the properties that stay in front of a new integer-like property
IndexesBelow(o, name) ==
  Cardinality({i \in 1..Len(o) :
                 IsArrayIndex(o[i].name) /\ IndexOf(o[i].name) < IndexOf(name)})

\* o[name] = value
ObjectSet(o, name, value) ==
  IF ObjectHas(o, name)
  THEN [i \in 1..Len(o) |->
          IF o[i].name = name THEN [name |-> name, value |-> value] ELSE o[i]]
  ELSE IF IsArrayIndex(name)
  THEN LET at == IndexesBelow(o, name) IN
       SubSeq(o, 1, at) \o <<[name |-> name, value |-> value]>>
                        \o SubSeq(o, at + 1, Len(o))
  ELSE Append(o, [name |-> name, value |-> value])

\* the object an object literal evaluates to
RECURSIVE ObjectLiteral(_, _)
ObjectLiteral(o, pairs) ==
  IF Len(pairs) = 0 THEN o
  ELSE ObjectLiteral(ObjectSet(o, Head(pairs).name, Head(pairs).value), Tail(pairs))

\* Object.keys(o)
ObjectKeys(o) == [i \in 1..Len(o) |-> o[i].name]

\* Array.prototype.sort() without a comparator, on distinct strings
RECURSIVE InsertSorted(_, _)
InsertSorted(sorted, name) ==
  IF Len(sorted) = 0 THEN <<name>>
  ELSE IF StrLess(name, Head(sorted)) THEN <<name>> \o sorted
  ELSE <<Head(sorted)>> \o InsertSorted(Tail(sorted), name)

RECURSIVE ArraySortFrom(_, _)
ArraySortFrom(sorted, names) ==
  IF Len(names) = 0 THEN sorted
  ELSE ArraySortFrom(InsertSorted(sorted, Head(names)), Tail(names))

\* (a variant that leaves the names in the order Object.keys gave)
ArrayNoSort(names) == names
ArraySort(names) == ArraySortFrom(<<>>, names)

\* names.reduce((result, key) => { result[key] = o[key]; return result }, result)
RECURSIVE Reduce(_, _, _)
Reduce(names, o, acc) ==
  IF Len(names) = 0 THEN acc
  ELSE Reduce(Tail(names), o, ObjectSet(acc, Head(names), ObjectGet(o, Head(names))))

\* JSON.stringify of a flat object: its properties in enumeration order,
\* those holding undefined left out
JSONstringify(o) == SelectSeq(o, LAMBDA prop : prop.value # JsUndefined)

\* getCacheKey(endpoint, params): `${endpoint}:${JSON.stringify(sortedParams)}`
getCacheKey(ep, o) ==
  LET sortedParams == Reduce(ArraySort(ObjectKeys(o)), o, <<>>)
  IN <<ep, ":", JSONstringify(sortedParams)>>

\* the literals a caller may write: up to MaxParams distinct names, in any
\* order, each with a value
Literals ==
  UNION {{pairs \in [1..n -> [name : ParamNames, value : ParamValues]] :
            \A i, j \in 1..n : i # j => pairs[i].name # pairs[j].name} :
         n \in 0..MaxParams}

\* the pairs of a literal written in the order perm
Orders(n) == {f \in [1..n -> 1..n] : \A i, j \in 1..n : i # j => f[i] # f[j]}
Permute(pairs, perm) == [i \in 1..Len(pairs) |-> pairs[perm[i]]]

\* a caller builds the key of its literal
KeyOfParams ==
  /\ keyCalls.keyOfParams = NoEntry
  /\ keyCalls' = [keyCalls EXCEPT !.keyOfParams =
                    getCacheKey(keyCalls.endpoint, ObjectLiteral(<<>>, keyCalls.params))]
  /\ UNCHANGED <<cacheVars, spiderVars, routeVars>>

\* another caller writes the same parameters in the order perm and builds
\* the key
KeyOfPermuted(perm) ==
  /\ keyCalls.keyOfPermuted = NoEntry
  /\ LET reordered == Permute(keyCalls.params, perm) IN
     keyCalls' = [keyCalls EXCEPT
                    !.permuted = reordered,
                    !.keyOfPermuted =
                      getCacheKey(keyCalls.endpoint, ObjectLiteral(<<>>, reordered))]
  /\ UNCHANGED <<cacheVars, spiderVars, routeVars>>

----------------------------------------------------------------------------
(* The aggregate routes /api/issues and /api/funhouse *)

\* const PROJECT_CACHE_TTL = 24 * 60 * 60 * 1000
PROJECT_CACHE_TTL == 24 * 60 * 60 * 1000

\* const perPage = 100
PerPage == 100

\* requests one server answers
MaxRequests == 2
\* issues on the emporium list
MaxItems == 4
\* whole pages of the long emporium lists
MaxPages == 2

Kinds == {"issues", "funhouse"}

\* the projects the listed issues belong to
ListProjectIds == {5, 7, 9}

\* `Project ${projectId}`
Placeholder(projectId) == JsString(<<"Project ">> \o Digits(projectId))

\* what GET /projects/:id answers
ProjectName(projectId) == JsString(<<"Shop ">> \o Digits(projectId))
ProjectData(projectId) == JsObject([id |-> projectId, name |-> ProjectName(projectId)])

\* a || b
JsOr(a, b) == IF Truthy(a) THEN a ELSE b

\* o[name] of a plain object kept as a function
Lookup(o, name) == IF name \in DOMAIN o THEN o[name] ELSE JsUndefined

\* the keys getCacheKey builds for the aggregate response of a route, for a
\* page of its list and for a project
AggregateKey(kind) == <<kind>>
PageKey(kind, page) == <<"list", kind, page>>
ProjectKey(projectId) == <<"project", projectId>>

\* the issues GitLab lists: every other one closed, every third one assigned
ListItem(i, projectId) ==
  [iid |-> i, project_id |-> projectId,
   state |-> IF i % 2 = 1 THEN "opened" ELSE "closed",
   assignee |-> IF i % 3 = 0 THEN JsObject([id |-> 1]) ELSE JsNull,
   description |-> <<>>]

Feature(iid) ==
  [iid |-> iid, project_id |-> ProjectId,
   state |-> IF iid % 2 = 1 THEN "opened" ELSE "closed",
   assignee |-> JsNull,
   description |-> issues[iid].description]

UpstreamList(kind) ==
  IF kind = "issues"
  THEN [i \in 1..Len(upstream.pids) |-> ListItem(i, upstream.pids[i])]
  ELSE [i \in 1..Len(upstream.features) |-> Feature(upstream.features[i])]

Min(a, b) == IF a < b THEN a ELSE b

\* the page GitLab answers for per_page = perPage, page = page
UpstreamPage(kind, page) ==
  SubSeq(UpstreamList(kind), (page - 1) * PerPage + 1,
         Min(page * PerPage, Len(UpstreamList(kind))))

\* issue.project_name = value
WithProjectName(issue, value) ==
  [f \in DOMAIN issue \cup {"project_name"} |->
     IF f = "project_name" THEN value ELSE issue[f]]

\* issue.project_name = projectNames[issue.project_id] || `Project ${issue.project_id}`
Named(issue, projectNames) ==
  WithProjectName(issue, JsOr(Lookup(projectNames, issue.project_id),
                              Placeholder(issue.project_id)))

\* allIssues.forEach(issue => { issue.project_name = ... })
Enrich(items, projectNames) ==
  [i \in 1..Len(items) |-> Named(items[i], projectNames)]

\* (a variant without the Set: the project_id of every issue)
AllProjectIds(ids, items) == ids \o [i \in 1..Len(items) |-> items[i].project_id]

\* [...new Set(allIssues.map(issue => issue.project_id))]: a Set keeps its
\* values in the order of their first insertion
UniqueProjectIds(ids, items) ==
  LET firsts == {i \in 1..Len(items) :
                   /\ ~InSeq(items[i].project_id, ids)
                   /\ \A j \in 1..(i - 1) : items[j].project_id # items[i].project_id}
      nth(k) == CHOOSE i \in firsts : Cardinality({j \in firsts : j <= i}) = k
  IN ids \o [k \in 1..Cardinality(firsts) |-> items[nth(k)].project_id]

\* categorizeIssues: the listed issues carry neither labels nor created_at,
\* so the comparator of sortIssues finds no order between two of them and
\* the (stable) sort keeps each category as it was filled
categorizeIssues(items) ==
  [forSale |-> SelectSeq(items, LAMBDA issue :
                 issue.state # "closed" /\ ~Truthy(issue.assignee)),
   sold |-> SelectSeq(items, LAMBDA issue :
                 issue.state # "closed" /\ Truthy(issue.assignee)),
   delivered |-> SelectSeq(items, LAMBDA issue : issue.state = "closed")]

\* res.json(body) and res.status(500).json(body)
Response(status, body) == [status |-> status, body |-> body]

\* the handler of the route `kind` before its first request
RouteIdle(kind) ==
  [kind |-> kind, pc |-> "idle", page |-> 0, all |-> <<>>, pending |-> {},
   results |-> <<>>, trees |-> <<>>, next |-> 0, requests |-> 0,
   response |-> NoEntry, served |-> "", sent |-> <<>>, ran |-> 0, lost |-> {},
   cut |-> 0]

\* the handler as a request finds it
Begin(r) == [RouteIdle(r.kind) EXCEPT !.requests = r.requests]

\* the handler has answered: its locals are gone (allIssues is kept for the
\* record)
Answer(r, response, served) ==
  [r EXCEPT !.pc = "idle", !.page = 0, !.pending = {}, !.results = <<>>,
            !.trees = <<>>, !.next = 0, !.requests = @ + 1,
            !.response = response, !.served = served]

\* a request arrives: the configuration test and the lookup of the
\* aggregate response; on a miss the pagination loop is set up
RouteStart ==
  /\ route.pc = "idle"
  /\ route.requests < MaxRequests
  /\ last' = NoOp
  /\ IF ~upstream.configured
     THEN /\ route' = Answer(Begin(route),
                        Response(500, JsString(<<"GitLab configuration missing">>)),
                        "error")
          /\ cache' = cache
     ELSE LET cacheKey == AggregateKey(route.kind)
              cachedData == getCachedData(cache, cacheKey, CACHE_TTL, now) IN
          /\ cache' = getCachedDataEvict(cache, cacheKey, CACHE_TTL, now)
          /\ IF Truthy(cachedData)
             THEN route' = Answer(Begin(route), Response(200, cachedData), "cached")
             ELSE route' = [Begin(route) EXCEPT !.pc = "page", !.page = 1]
  /\ UNCHANGED <<now, inFlight, written, failedKeys, cleared, spiderVars,
                 keyVars, upstream>>

\* (a variant that goes on until a page comes back empty)
TakePageUntilEmpty(r, items) ==
  [r EXCEPT !.all = @ \o items,
            !.page = @ + 1,
            !.pc = IF Len(items) > 0 THEN "page" ELSE "fanout"]

\* allIssues.push(...issues); hasMorePages = issues.length === perPage; page++
TakePage(r, items) ==
  [r EXCEPT !.all = @ \o items,
            !.page = @ + 1,
            !.pc = IF Len(items) = PerPage THEN "page" ELSE "fanout"]

\* one turn of the pagination loop up to the `await`: the lookup of the page
RoutePage ==
  /\ route.pc = "page"
  /\ LET key == PageKey(route.kind, route.page)
         cachedData == getCachedData(cache, key, CACHE_TTL, now) IN
     /\ cache' = getCachedDataEvict(cache, key, CACHE_TTL, now)
     /\ IF Truthy(cachedData)
        THEN route' = TakePage(route, cachedData.val)
        ELSE route' = [route EXCEPT !.pc = "pageWait", !.sent = Append(@, key)]
  /\ UNCHANGED <<now, inFlight, last, written, failedKeys, cleared, spiderVars,
                 keyVars, upstream>>

\* the page request resolves: stored, returned, pushed
RoutePageRespond ==
  /\ route.pc = "pageWait"
  /\ LET key == PageKey(route.kind, route.page)
         data == JsArray(UpstreamPage(route.kind, route.page)) IN
     /\ cache' = setCachedData(cache, key, data, CACHE_TTL, now)
     /\ written' = setCachedData(written, key, data, CACHE_TTL, now)
     /\ route' = TakePage(route, data.val)
  /\ UNCHANGED <<now, inFlight, last, failedKeys, cleared, spiderVars, keyVars,
                 upstream>>

\* the page request rejects: caught inside the loop, which breaks and goes
\* on with the pages it has
RoutePageFail ==
  /\ route.pc = "pageWait"
  /\ failures < MaxFailures
  /\ failures' = failures + 1
  /\ failed' = Append(failed, Failure("page", route.page, route.page))
  /\ route' = [route EXCEPT !.pc = "fanout", !.cut = route.page]
  /\ UNCHANGED <<cacheVars, keyVars, upstream, issues, stack, visited,
                 rootIssueId, result, expansions, fetches, runs>>

\* what the callback of projectIds.map(async ...) returns
ProjectResult(projectId, name) == [projectId |-> projectId, name |-> name]

\* await Promise.all(projectPromises): the values of the promises in the
\* order of the promises (of projectIds), whatever order they settled in
PromiseAll(ids, settled) ==
  [i \in 1..Len(ids) |-> CHOOSE r \in SeqToSet(settled) : r.projectId = ids[i]]

\* (a variant that pairs projectIds by position with the values in the
\* order the lookups settled)
JoinByPosition(ids, settled) ==
  [id \in SeqToSet(ids) |-> settled[CHOOSE i \in 1..Len(ids) : ids[i] = id].name]

\* projectResults.forEach(({ projectId, name }) => { projectNames[projectId] = name; })
JoinById(ids, settled) ==
  LET projectResults == PromiseAll(ids, settled) IN
  [id \in {projectResults[i].projectId : i \in 1..Len(projectResults)} |->
     (CHOOSE r \in SeqToSet(projectResults) : r.projectId = id).name]

\* the lookups of projectIds.map(async ...), each up to its `await`
RECURSIVE FanOutLookups(_, _, _)
FanOutLookups(ids, c, r) ==
  IF Len(ids) = 0 THEN [cache |-> c, route |-> r]
  ELSE LET projectId == Head(ids)
           key == ProjectKey(projectId)
           cachedData == getCachedData(c, key, PROJECT_CACHE_TTL, now) IN
       FanOutLookups(Tail(ids),
         getCachedDataEvict(c, key, PROJECT_CACHE_TTL, now),
         IF Truthy(cachedData)
         THEN [r EXCEPT !.results =
                          Append(@, ProjectResult(projectId, cachedData.val.name))]
         ELSE [r EXCEPT !.pending = @ \cup {projectId},
                        !.sent = Append(@, key)])

\* const projectIds = [...new Set(...)]; const projectPromises = projectIds.map(...)
RouteFanOut ==
  /\ route.pc = "fanout"
  /\ LET after == FanOutLookups(UniqueProjectIds(<<>>, route.all), cache,
                                [route EXCEPT !.pc = "join"]) IN
     /\ cache' = after.cache
     /\ route' = after.route
  /\ UNCHANGED <<now, inFlight, last, written, failedKeys, cleared, spiderVars,
                 keyVars, upstream>>

\* the request for a project resolves: stored, { projectId, name: projectData.name }
ProjectRespond(projectId) ==
  /\ route.pc = "join" /\ projectId \in route.pending
  /\ LET key == ProjectKey(projectId)
         data == ProjectData(projectId) IN
     /\ cache' = setCachedData(cache, key, data, PROJECT_CACHE_TTL, now)
     /\ written' = setCachedData(written, key, data, PROJECT_CACHE_TTL, now)
     /\ route' = [route EXCEPT !.pending = @ \ {projectId},
                               !.results =
                                 Append(@, ProjectResult(projectId, data.val.name))]
  /\ UNCHANGED <<now, inFlight, last, failedKeys, cleared, spiderVars, keyVars,
                 upstream>>

\* (a variant in which the rejection of one lookup rejects Promise.all)
ProjectFailAborts(projectId) ==
  /\ route.pc = "join" /\ projectId \in route.pending
  /\ failures < MaxFailures
  /\ failures' = failures + 1
  /\ failed' = Append(failed, Failure("project", projectId, projectId))
  /\ route' = Answer([route EXCEPT !.lost = @ \cup {projectId}],
                     Response(500, JsString(<<"Failed to fetch from GitLab">>)),
                     "error")
  /\ UNCHANGED <<cacheVars, keyVars, upstream, issues, stack, visited,
                 rootIssueId, result, expansions, fetches, runs>>

\* the request for a project rejects: caught in the callback, which
\* returns { projectId, name: `Project ${projectId}` }
ProjectFail(projectId) ==
  /\ route.pc = "join" /\ projectId \in route.pending
  /\ failures < MaxFailures
  /\ failures' = failures + 1
  /\ failed' = Append(failed, Failure("project", projectId, projectId))
  /\ route' = [route EXCEPT !.pending = @ \ {projectId},
                            !.lost = @ \cup {projectId},
                            !.results =
                              Append(@, ProjectResult(projectId, Placeholder(projectId)))]
  /\ UNCHANGED <<cacheVars, keyVars, upstream, issues, stack, visited,
                 rootIssueId, result, expansions, fetches, runs>>

\* the pages the loop has pushed onto allIssues
PagesTaken == {PageKey(route.kind, p) : p \in 1..(route.page - 1)}

\* allIssues.forEach(issue => { issue.project_name = ... }): the issues are
\* the objects of the page arrays cachedGitlabApiCall returned, which are
\* the arrays the Map holds
EnrichedCache(c, projectNames) ==
  [k \in DOMAIN c |->
     IF k \in PagesTaken
     THEN [c[k] EXCEPT !.data = JsArray(Enrich(@.val, projectNames))]
     ELSE c[k]]

\* Promise.all has resolved: projectNames, the project_name assignments and,
\* on /api/issues, categorizeIssues, setCachedData(cacheKey, responseData)
\* and res.json(responseData)
RouteJoin ==
  /\ route.pc = "join" /\ route.pending = {}
  /\ LET projectNames == JoinById(UniqueProjectIds(<<>>, route.all), route.results)
         enriched == Enrich(route.all, projectNames)
         cacheKey == AggregateKey(route.kind)
         responseData == JsObject([issues |-> categorizeIssues(enriched),
                                   total |-> Len(enriched), timestamp |-> now]) IN
     IF route.kind = "issues"
     THEN /\ cache' = setCachedData(EnrichedCache(cache, projectNames), cacheKey,
                                    responseData, CACHE_TTL, now)
          /\ written' = setCachedData(written, cacheKey, responseData, CACHE_TTL, now)
          /\ route' = Answer([route EXCEPT !.all = enriched],
                              Response(200, responseData), "built")
     ELSE /\ cache' = EnrichedCache(cache, projectNames)
          /\ written' = written
          /\ route' = [route EXCEPT !.pc = "spider", !.all = enriched, !.next = 1]
  /\ UNCHANGED <<now, inFlight, last, failedKeys, cleared, spiderVars, keyVars,
                 upstream>>

\* (a variant in which the roots of one request share one visited Set)
RouteSpiderStartShared ==
  /\ route.pc = "spider"
  /\ Len(stack) = 0 /\ result = NoEntry
  /\ route.next <= Len(route.all)
  /\ stack' = <<Frame(route.all[route.next], 0)>>
  /\ visited' = visited
  /\ rootIssueId' = route.all[route.next].iid
  /\ route' = [route EXCEPT !.ran = @ + 1]
  /\ UNCHANGED <<cacheVars, keyVars, upstream, issues, result, expansions,
                 fetches, failures, failed, runs>>

\* for (const feature of allFeatures): spiderLinkedIssues(feature, gitlabApi)
\* with a fresh visited Set, rootIssueId = feature.iid, depth 0
RouteSpiderStart ==
  /\ route.pc = "spider"
  /\ Len(stack) = 0 /\ result = NoEntry
  /\ route.next <= Len(route.all)
  /\ stack' = <<Frame(route.all[route.next], 0)>>
  /\ visited' = {}
  /\ rootIssueId' = route.all[route.next].iid
  /\ route' = [route EXCEPT !.ran = @ + 1]
  /\ UNCHANGED <<cacheVars, keyVars, upstream, issues, result, expansions,
                 fetches, failures, failed, runs>>

\* featureTrees.push(featureTree)
RouteSpiderDone ==
  /\ route.pc = "spider"
  /\ result # NoEntry
  /\ route' = [route EXCEPT !.trees = Append(@, result), !.next = @ + 1]
  /\ result' = NoEntry
  /\ UNCHANGED <<cacheVars, keyVars, upstream, issues, stack, visited,
                 rootIssueId, expansions, fetches, failures, failed, runs>>

\* the issues below the roots of the trees: the objects
\* cachedGitlabApiCall returned to the spider, which the Map holds
LinkedIn(trees) ==
  UNION {SeqToSet(Tail(Preorder(trees[i]))) : i \in 1..Len(trees)}

\* addProjectNamesToTree on an issue below a root
NamedOnce(issue, projectNames) ==
  IF "project_name" \in DOMAIN issue /\ Truthy(issue.project_name)
  THEN issue ELSE Named(issue, projectNames)

\* the trees whose root issue is in `state`
TreesIn(trees, roots, state) ==
  LET picked == SelectSeq([i \in 1..Len(trees) |-> i],
                          LAMBDA i : roots[i].state = state)
  IN [j \in 1..Len(picked) |-> trees[picked[j]]]

\* tree.issue.project_name = ... in addProjectNamesToTree: the linked issues
\* are the objects cachedGitlabApiCall returned, which the Map holds
NamedCache(c, keys, projectNames) ==
  [k \in DOMAIN c |->
     IF k \in keys
     THEN [c[k] EXCEPT !.data = JsObject(NamedOnce(@.val, projectNames))]
     ELSE c[k]]

\* (a variant that answers without storing the response)
RouteFinishNoStore ==
  /\ route.pc = "spider"
  /\ Len(stack) = 0 /\ result = NoEntry
  /\ route.next > Len(route.all)
  /\ LET responseData ==
           JsObject([features |->
                       [active |-> TreesIn(route.trees, route.all, "opened"),
                        complete |-> TreesIn(route.trees, route.all, "closed")],
                     total |-> Len(route.all), timestamp |-> now]) IN
     route' = Answer(route, Response(200, responseData), "built")
  /\ UNCHANGED <<cacheVars, spiderVars, keyVars, upstream>>

\* after the spider loop on /api/funhouse: addProjectNamesToTree over the
\* trees, the two filters, setCachedData(cacheKey, responseData) and
\* res.json(responseData)
RouteFinish ==
  /\ route.pc = "spider"
  /\ Len(stack) = 0 /\ result = NoEntry
  /\ route.next > Len(route.all)
  /\ LET projectNames == JoinById(UniqueProjectIds(<<>>, route.all), route.results)
         cacheKey == AggregateKey(route.kind)
         responseData ==
           JsObject([features |->
                       [active |-> TreesIn(route.trees, route.all, "opened"),
                        complete |-> TreesIn(route.trees, route.all, "closed")],
                     total |-> Len(route.all), timestamp |-> now])
         named == NamedCache(cache, {IssueKey(iid) : iid \in LinkedIn(route.trees)},
                             projectNames) IN
     /\ cache' = setCachedData(named, cacheKey, responseData, CACHE_TTL, now)
     /\ written' = setCachedData(written, cacheKey, responseData, CACHE_TTL, now)
     /\ route' = Answer(route, Response(200, responseData), "built")
  /\ UNCHANGED <<now, inFlight, last, failedKeys, cleared, spiderVars, keyVars,
                 upstream>>

\* GET /api/cache/status
CacheStatus(c, t) ==
  [totalEntries |-> Cardinality(DOMAIN c),
   ttl |-> CACHE_TTL,
   entries |-> {[key |-> k,
                 timestamp |-> c[k].timestamp,
                 age |-> t - c[k].timestamp,
                 ttl |-> CACHE_TTL,
                 expiresIn |-> IF CACHE_TTL - (t - c[k].timestamp) > 0
                               THEN CACHE_TTL - (t - c[k].timestamp) ELSE 0] :
                k \in DOMAIN c}]

Status ==
  /\ route.pc = "idle"
  /\ last' = Observation("status", <<>>, CACHE_TTL, JsObject(CacheStatus(cache, now)), 0)
  /\ UNCHANGED <<now, cache, inFlight, written, failedKeys, cleared, spiderVars,
                 keyVars, routeVars>>

\* ten minutes pass between two requests
Later ==
  /\ route.pc = "idle"
  /\ now < MaxTime * CACHE_TTL
  /\ now' = now + CACHE_TTL
  /\ last' = NoOp
  /\ UNCHANGED <<cache, inFlight, written, failedKeys, cleared, spiderVars,
                 keyVars, routeVars>>

\* the emporium lists that fill whole pages: one issue less than, exactly,
\* and one issue more than 0..MaxPages pages; the issues alternate between
\* two projects
PageLens ==
  {n \in UNION {{p * PerPage - 1, p * PerPage, p * PerPage + 1} : p \in 0..MaxPages} :
     n >= 0}
PageLists == {[i \in 1..n |-> IF i % 2 = 1 THEN 5 ELSE 7] : n \in PageLens}

\* the emporium lists: up to MaxItems issues, each in one of the projects
ProjectIdLists == UNION {[1..n -> ListProjectIds] : n \in 0..MaxItems}

\* the funhouse graphs: a chain of one or two references, alone or with
\* one further mention, and the chain that reaches the depth bound
FunhouseGraphs ==
  UNION {{ChainIssues(len)} \cup
         {WithMention(ChainIssues(len), src, id, place) :
            src \in 1..(len + 1), id \in 0..(len + 1), place \in Places} :
         len \in 1..2}
    \cup {ChainIssues(DefaultMaxDepth)}

\* the issues with the funhouse label
FeatureLists == {<<>>, <<1>>, <<1, 2>>}

----------------------------------------------------------------------------
(* Specifications *)

CacheInit ==
  /\ now = 0
  /\ cache = EmptyMap
  /\ written = EmptyMap
  /\ inFlight = EmptyBag
  /\ last = NoOp
  /\ failedKeys = {}
  /\ cleared = {}

SpiderIdle ==
  /\ stack = <<>>
  /\ visited = {}
  /\ rootIssueId = 0
  /\ result = NoEntry
  /\ expansions = <<>>
  /\ fetches = 0
  /\ failures = 0
  /\ failed = <<>>
  /\ runs = <<>>

KeyCalls(ep, pairs) ==
  [endpoint |-> ep, params |-> pairs, permuted |-> <<>>,
   keyOfParams |-> NoEntry, keyOfPermuted |-> NoEntry]

KeyIdle == keyCalls = KeyCalls("issues", <<>>)

Environment(configured, pids, features) ==
  [configured |-> configured, pids |-> pids, features |-> features]

RouteInactive ==
  /\ upstream = Environment(TRUE, <<>>, <<>>)
  /\ route = RouteIdle("issues")

Init ==
  /\ CacheInit
  /\ SpiderIdle
  /\ issues = <<>>
  /\ KeyIdle
  /\ RouteInactive

Next ==
  \/ Tick
  \/ \E key \in Keys, ttl \in TtlArgs : Get(key, ttl)
  \/ \E key \in Keys, data \in ResponseValues, ttl \in TtlArgs : Set(key, data, ttl)
  \/ Clear
  \/ \E key \in Keys, ttl \in TtlArgs : CallBegin(key, ttl)
  \/ \E call \in BagToSet(inFlight), data \in ResponseValues : CallRespond(call, data)
  \/ \E call \in BagToSet(inFlight) : CallFail(call)

Spec == Init /\ [][Next]_vars

SpiderInit ==
  /\ CacheInit
  /\ SpiderIdle
  /\ issues \in IssueGraphs
  /\ KeyIdle
  /\ RouteInactive

SpiderNext ==
  \/ SpiderStart
  \/ SpiderEnter
  \/ NotesRespond
  \/ NotesFail
  \/ SpiderLoop
  \/ DetailRespond
  \/ DetailFail

SpiderSpec == SpiderInit /\ [][SpiderNext]_vars

\* the graphs a root is spidered twice on: the chains of up to two
\* references more than the depth bound, alone or with one further mention
RespiderGraphs ==
  UNION {{ChainIssues(len)} \cup
         {WithMention(ChainIssues(len), src, id, place) :
            src \in 1..(len + 1), id \in 0..(len + 1), place \in Places} :
         len \in 1..(DefaultMaxDepth + 2)}

RespiderInit ==
  /\ CacheInit
  /\ SpiderIdle
  /\ issues \in RespiderGraphs
  /\ KeyIdle
  /\ RouteInactive

\* the spider run on one root, and run again on it
RespiderNext == SpiderNext \/ SpiderAgain

RespiderSpec == RespiderInit /\ [][RespiderNext]_vars

\* the event loop resumes a continuation once its request has settled, and
\* every request settles (axios rejects after its 30 s timeout)
FairSpiderSpec == SpiderSpec /\ WF_vars(SpiderNext)

KeyInit ==
  /\ CacheInit
  /\ SpiderIdle
  /\ issues = <<>>
  /\ keyCalls \in {KeyCalls(ep, pairs) : ep \in Endpoints, pairs \in Literals}
  /\ RouteInactive

KeyNext ==
  \/ KeyOfParams
  \/ \E perm \in Orders(Len(keyCalls.params)) : KeyOfPermuted(perm)

KeySpec == KeyInit /\ [][KeyNext]_vars

\* a server answering requests of one aggregate route, one at a time, the
\* clock advancing between requests
RouteInit ==
  /\ CacheInit
  /\ SpiderIdle
  /\ KeyIdle
  /\ \/ /\ route = RouteIdle("issues")
        /\ issues = <<>>
        /\ upstream \in {Environment(configured, pids, <<>>) :
                           configured \in BOOLEAN, pids \in ProjectIdLists}
     \/ /\ route = RouteIdle("funhouse")
        /\ issues \in FunhouseGraphs
        /\ upstream \in {Environment(TRUE, <<>>, features) :
                           features \in FeatureLists}

RouteNext ==
  \/ RouteStart
  \/ RoutePage
  \/ RoutePageRespond
  \/ RoutePageFail
  \/ RouteFanOut
  \/ \E projectId \in ListProjectIds \cup {ProjectId} : ProjectRespond(projectId)
  \/ \E projectId \in ListProjectIds \cup {ProjectId} : ProjectFail(projectId)
  \/ RouteJoin
  \/ RouteSpiderStart
  \/ SpiderEnter
  \/ NotesRespond
  \/ NotesFail
  \/ SpiderLoop
  \/ DetailRespond
  \/ DetailFail
  \/ RouteSpiderDone
  \/ RouteFinish
  \/ Status
  \/ Later

RouteSpec == RouteInit /\ [][RouteNext]_vars

\* /api/issues on lists of several pages
PageInit ==
  /\ CacheInit
  /\ SpiderIdle
  /\ KeyIdle
  /\ route = RouteIdle("issues")
  /\ issues = <<>>
  /\ upstream \in {Environment(TRUE, pids, <<>>) : pids \in PageLists}

PageNext ==
  \/ RouteStart
  \/ RoutePage
  \/ RoutePageRespond
  \/ RoutePageFail
  \/ RouteFanOut
  \/ \E projectId \in ListProjectIds : ProjectRespond(projectId)
  \/ \E projectId \in ListProjectIds : ProjectFail(projectId)
  \/ RouteJoin
  \/ Later

PageSpec == PageInit /\ [][PageNext]_vars

\* the event loop resumes the handler once the request it awaits has
\* settled, and every request settles (axios rejects after its 30 s timeout)
FairPageSpec ==
  PageSpec /\ WF_vars(RoutePage) /\ WF_vars(RoutePageRespond \/ RoutePageFail)

----------------------------------------------------------------------------
(* Claims about the TTL cache and the cache-aside wrapper *)

\* the entry is fresh by the ttl recorded in it
FreshByEntry(e, t) == t - e.timestamp < e.ttl

\* C1: after set(key, data, T), with no set or clear of the key in between,
\* get(key) returns data while the time elapsed since the set is < T and
\* returns absent (null) once it is >= T, T being the ttl given to set.
C1_GetFollowsSetTtl ==
  (last.op = "get" /\ last.key \in DOMAIN written) =>
    IF FreshByEntry(written[last.key], now)
    THEN last.result = written[last.key].data
    ELSE last.result = JsNull

\* C2: data returned from the cache (by getCachedData or by a hit of
\* cachedGitlabApiCall) is never older than the ttl recorded in its entry:
\* its age, now minus its write time, is within that ttl.
C2_NoStaleHit ==
  (last.op \in {"get", "hit"} /\ last.result # JsNull) =>
    /\ last.key \in DOMAIN cache
    /\ last.result = cache[last.key].data
    /\ FreshByEntry(cache[last.key], now)

\* C3: cachedGitlabApiCall issues no upstream call and returns the stored
\* data whenever a fresh entry exists for the key, whatever JSON value was
\* stored; on a miss it issues exactly one upstream call, stores the
\* response under the key with the given ttl and returns it.
C3_HitSkipsUpstream ==
  /\ (/\ last.op \in {"hit", "request"}
      /\ last.key \in DOMAIN cache
      /\ FreshByEntry(cache[last.key], now)
      /\ now - cache[last.key].timestamp < last.ttl)
     => (/\ last.op = "hit"
         /\ last.sent = 0
         /\ last.result = cache[last.key].data)
  /\ last.op = "response" =>
       /\ last.sent = 1
       /\ last.key \in DOMAIN cache
       /\ cache[last.key] =
            [data |-> last.result, timestamp |-> now, ttl |-> last.ttl]

\* C4: when the upstream call of cachedGitlabApiCall fails, the call writes
\* no entry (the Map is left as it was) and the failure reaches the caller
\* as a throw; a later call for a key whose call failed, no entry having
\* been stored for it since, contacts upstream again.
C4_FailureNotCached ==
  [][/\ (BagCardinality(inFlight') < BagCardinality(inFlight)
          /\ last'.op # "response")
         => (last'.op = "throw" /\ cache' = cache)
     /\ (last'.op \in {"hit", "request"} /\ last'.key \in failedKeys)
         => (last'.op = "request" /\ last'.sent = 1)]_vars

C4_Witness ==
  last.op = "request" /\ last.key \in failedKeys

\* C14: clearCache leaves no entry in the Map (every entry the Map holds
\* was set after the latest clear; none belongs to a key dropped by a clear
\* and not set since), and a lookup (getCachedData, or the lookup of
\* cachedGitlabApiCall) of a key that was set before a clear and has not
\* been set since finds nothing.
C14_ClearedKeysAbsent ==
  /\ DOMAIN cache \subseteq DOMAIN written
  /\ DOMAIN cache \cap cleared = {}
  /\ (last.op \in {"get", "hit"} /\ last.key \in cleared) => last.result = JsNull

\* a get of a key that was set and then cleared
C14_Witness ==
  /\ last.op = "get"
  /\ last.key \in cleared
  /\ last.result = JsNull

----------------------------------------------------------------------------
(* Claims about the linked-issue spider *)

\* the iids of the nodes at a given number of levels below `node`
RECURSIVE AtLevel(_, _)
AtLevel(node, level) ==
  IF level = 0 THEN <<node>>
  ELSE Concat([i \in 1..Len(node.linkedIssues) |->
                 AtLevel(node.linkedIssues[i], level - 1)])

RECURSIVE Height(_)
Height(node) ==
  IF Len(node.linkedIssues) = 0 THEN 0
  ELSE 1 + CHOOSE h \in {Height(node.linkedIssues[i]) : i \in 1..Len(node.linkedIssues)} :
             \A i \in 1..Len(node.linkedIssues) : Height(node.linkedIssues[i]) <= h

\* no iid occurs twice between `node` and any leaf below it, nor in `above`
RECURSIVE PathsDistinct(_, _)
PathsDistinct(node, above) ==
  /\ node.issue \notin above
  /\ \A i \in 1..Len(node.linkedIssues) :
       PathsDistinct(node.linkedIssues[i], above \cup {node.issue})

\* no node has its own iid among its children
RECURSIVE NoSelfChild(_)
NoSelfChild(node) ==
  \A i \in 1..Len(node.linkedIssues) :
    /\ node.linkedIssues[i].issue # node.issue
    /\ NoSelfChild(node.linkedIssues[i])

Distinct(sq) == \A i, j \in 1..Len(sq) : i # j => sq[i] # sq[j]
Occurs(x, sq) == Cardinality({i \in 1..Len(sq) : sq[i] = x})

Done == result # NoEntry

\* the 2-cycle A -> B -> A: issue 1 mentions #2, issue 2 mentions #1
TwoCycle(place) == WithMention(ChainIssues(1), 2, 1, place)

\* C5: on every root-to-leaf path of the returned tree no iid occurs twice;
\* the root's iid occurs in no other node; no node has its own iid among
\* its children; for A -> B -> A the tree is A with the sole child B, and B
\* has no children.
C5_NoRepeatOnPath ==
  Done =>
    /\ PathsDistinct(result, {})
    /\ Occurs(rootIssueId, Preorder(result)) = 1
    /\ result.issue = rootIssueId
    /\ NoSelfChild(result)
    /\ ((failures = 0 /\ \E place \in Places : issues = TwoCycle(place))
          => result = Node(1, <<Node(2, <<>>)>>))

C5_Witness ==
  /\ Done
  /\ issues = TwoCycle("after")
  /\ result = Node(1, <<Node(2, <<>>)>>)

\* C6: every iid appears at most once in the whole returned tree; an issue
\* referenced by two issues that are both reached from the root appears
\* exactly once.  (Stated for the traversals in which no request failed.)
C6_EachIidOnce ==
  (Done /\ failures = 0) => Distinct(Preorder(result))

\* the tree of a chain cut at the depth bound: iid, iid+1, ... down `levels` levels
RECURSIVE ChainTree(_, _)
ChainTree(iid, levels) ==
  Node(iid, IF levels = 0 THEN <<>> ELSE <<ChainTree(iid + 1, levels - 1)>>)

\* C7: for a root heading a linear chain of references longer than
\* maxDepth = 5 (10 references in particular) the tree is exactly 5 levels
\* deep below the root, and the node on the 5th level has no children
\* although its own description mentions a further issue.
C7_ChainCutAtDepth ==
  (Done /\ failures = 0
        /\ \E len \in (DefaultMaxDepth + 1)..ChainLen : issues = ChainIssues(len))
  => /\ Height(result) = DefaultMaxDepth
     /\ result = ChainTree(1, DefaultMaxDepth)
     /\ \A n \in {AtLevel(result, DefaultMaxDepth)[i] :
                    i \in 1..Len(AtLevel(result, DefaultMaxDepth))} :
          /\ n.linkedIssues = <<>>
          /\ extractLinkedIssueIds(IssueObject(n.issue).val, issues[n.issue].notes) # <<>>

C7_Witness ==
  /\ Done /\ failures = 0
  /\ issues = ChainIssues(ChainLen)
  /\ Height(result) = DefaultMaxDepth
  /\ Len(AtLevel(result, DefaultMaxDepth)) = 1

\* the ids issue `iid` references in its description and notes
Refs(iid) ==
  LET ids == extractLinkedIssueIds(IssueObject(iid).val, issues[iid].notes)
  IN {ids[i] : i \in 1..Len(ids)} \cap DOMAIN issues

\* the issues reachable from the set `from` by at most `steps` references
RECURSIVE Reachable(_, _)
Reachable(from, steps) ==
  IF steps = 0 THEN from
  ELSE Reachable(from \cup UNION {Refs(i) : i \in from}, steps - 1)

InTree == {Preorder(result)[i] : i \in 1..Len(Preorder(result))}

\* C8: with every upstream fetch succeeding, the tree contains every issue
\* reachable from the root by a chain of at most maxDepth references.
C8_AllReachableInTree ==
  (Done /\ failures = 0) => Reachable({rootIssueId}, DefaultMaxDepth) \subseteq InTree

\* C9: spiderLinkedIssues terminates for every reference graph, provided
\* each upstream call eventually returns or fails.
C9_Terminates == <>Done

\* a graph with the cycle 2 -> 3 -> 2 on a chain longer than the depth bound
C9_Witness ==
  /\ Done
  /\ issues = WithMention(ChainIssues(ChainLen), 3, 2, "note")

\* C10: within one traversal each iid is expanded (handed to
\* extractLinkedIssueIds, its notes looked up) at most once, even when it
\* is referenced from several branches.
C10_ExpandedOnce == Distinct(expansions)

\* issue 3 is referenced by issue 2 and by the root, and was expanded
C10_Witness ==
  /\ Done
  /\ issues = WithMention(ChainIssues(3), 1, 3, "after")
  /\ Occurs(3, expansions) = 1

----------------------------------------------------------------------------
(* Claims about failures inside the spider *)

\* the iids of the children of the nodes of `node`'s tree that carry issue p
RECURSIVE ChildIds(_, _)
ChildIds(node, p) ==
  (IF node.issue = p THEN {n.issue : n \in SeqToSet(node.linkedIssues)} ELSE {})
    \cup UNION {ChildIds(n, p) : n \in SeqToSet(node.linkedIssues)}

\* the ids extractLinkedIssueIds returned for issue p in this traversal
ExtractedIds(p) ==
  SeqToSet(extractLinkedIssueIds(IssueObject(p).val,
             IF Failure("notes", p, p) \in SeqToSet(failed)
             THEN <<>> ELSE issues[p].notes))

\* C11: when the detail fetch of a linked id x of parent p fails, x is not
\* among p's children, and every other id p references whose fetch did not
\* fail is spidered (it is a child of p, or it was expanded elsewhere in the
\* traversal and so skipped as visited); the traversal ends with a tree
\* rooted at the issue it was given.
C11_SiblingsSurviveFailure ==
  Done =>
    /\ result.issue = rootIssueId
    /\ \A f \in SeqToSet(failed) :
         f.kind = "detail" =>
           /\ f.id \notin ChildIds(result, f.parent)
           /\ \A y \in ExtractedIds(f.parent) \ {f.id} :
                Failure("detail", f.parent, y) \notin SeqToSet(failed)
                  => (y \in ChildIds(result, f.parent) \/ y \in visited)

\* the root mentions #3 and then #2; the fetch of 3 failed, 2 was spidered
\* (and reached 3 by its own reference)
C11_Witness ==
  /\ Done
  /\ issues = WithMention(ChainIssues(2), 1, 3, "before")
  /\ failed = <<Failure("detail", 1, 3)>>
  /\ result = Node(1, <<Node(2, <<Node(3, <<>>)>>)>>)

\* C12: when the notes fetch of an issue fails during the traversal, the
\* failure is caught and the node of that issue has an empty linkedIssues
\* list.
C12_NotesFailureMeansLeaf ==
  Done =>
    \A f \in SeqToSet(failed) :
      f.kind = "notes" => ChildIds(result, f.parent) = {}

\* the ids mentioned in the description of issue p
DescriptionIds(p) == SeqToSet(extractLinkedIssueIds(IssueObject(p).val, <<>>))

\* C12 (amended): when the notes fetch of an issue fails during the
\* traversal, the failure is caught, the traversal still ends with a tree
\* rooted at the given issue, and the node's links are those of its
\* description alone: its children are among the ids its description
\* mentions, and each of those ids whose fetch did not fail is a child of
\* the node or was expanded elsewhere.
C12_NotesFailureKeepsDescription ==
  Done =>
    /\ result.issue = rootIssueId
    /\ \A f \in SeqToSet(failed) :
         f.kind = "notes" =>
           /\ ChildIds(result, f.parent) \subseteq DescriptionIds(f.parent)
           /\ \A y \in DescriptionIds(f.parent) :
                Failure("detail", f.parent, y) \notin SeqToSet(failed)
                  => (y \in ChildIds(result, f.parent) \/ y \in visited)

\* issue 2 mentions #3 in its description and #6 in a note; its notes
\* fetch failed, and 3 is its only child
C12_Witness ==
  /\ Done
  /\ issues = WithMention(ChainIssues(6), 2, 6, "note")
  /\ failed = <<Failure("notes", 2, 2)>>
  /\ ChildIds(result, 2) = {3}

----------------------------------------------------------------------------
(* Claims about getCacheKey *)

\* C13: for every endpoint and parameter object, getCacheKey returns the
\* same key whatever the order in which the object's properties were
\* written.
C13_KeyIgnoresOrder ==
  (keyCalls.keyOfParams # NoEntry /\ keyCalls.keyOfPermuted # NoEntry)
    => keyCalls.keyOfParams = keyCalls.keyOfPermuted

\* both keys were built, from two literals that evaluate to objects with
\* different property orders
C13_Witness ==
  /\ keyCalls.keyOfParams # NoEntry /\ keyCalls.keyOfPermuted # NoEntry
  /\ Len(keyCalls.params) = MaxParams
  /\ ObjectKeys(ObjectLiteral(<<>>, keyCalls.params))
       # ObjectKeys(ObjectLiteral(<<>>, keyCalls.permuted))

----------------------------------------------------------------------------
(* Claims about the aggregate routes *)

\* the first request of a server has fanned out, or has been answered
\* with a response it built: the cache was empty when it arrived
FirstFanOut == route.requests = 0 /\ route.pc \in {"join", "spider"}
FirstAnswer == route.requests = 1 /\ route.pc = "idle" /\ route.served = "built"

ProjectIdsOf(items) == {items[i].project_id : i \in 1..Len(items)}

\* the issues of a response of /api/issues
IssuesIn(body) ==
  SeqToSet(body.val.issues.forSale) \cup SeqToSet(body.val.issues.sold)
    \cup SeqToSet(body.val.issues.delivered)

\* C15: starting from an empty cache, the fan-out asks upstream for each
\* distinct project_id of the list exactly once (and for no other project),
\* and when the request is answered every issue of the list, and of the
\* response of /api/issues, carries the name resolved for its own project.
C15_OneCallPerProject ==
  /\ (FirstFanOut \/ FirstAnswer) =>
       \A projectId \in ListProjectIds \cup {ProjectId} :
         Occurs(ProjectKey(projectId), route.sent) =
           IF projectId \in ProjectIdsOf(route.all) THEN 1 ELSE 0
  /\ (FirstAnswer /\ route.lost = {}) =>
       /\ \A i \in 1..Len(route.all) :
            route.all[i].project_name = ProjectName(route.all[i].project_id)
       /\ route.kind = "issues" =>
            IssuesIn(route.response.body) = SeqToSet(route.all)

\* the list [5, 7, 5, 9]: three requests for projects, four issues named
C15_Witness ==
  /\ FirstAnswer
  /\ upstream.pids = <<5, 7, 5, 9>>
  /\ route.lost = {}
  /\ Len(SelectSeq(route.sent, LAMBDA key : key[1] = "project")) = 3
  /\ Len(route.all) = 4

\* C16: when the resolution of a project id fails during the fan-out, the
\* request is still answered with a 200 response, in which exactly the
\* issues of that project carry the placeholder `Project <id>` and every
\* other issue carries the name of its own project.
C16_PlaceholderForFailedOnly ==
  (route.pc = "idle" /\ route.lost # {}) =>
    /\ route.response.status = 200
    /\ route.served = "built"
    /\ \A i \in 1..Len(route.all) :
         route.all[i].project_name =
           IF route.all[i].project_id \in route.lost
           THEN Placeholder(route.all[i].project_id)
           ELSE ProjectName(route.all[i].project_id)
    /\ route.kind = "issues" =>
         IssuesIn(route.response.body) = SeqToSet(route.all)

\* the list [5, 7, 5, 9] with the request for project 7 failing
C16_Witness ==
  /\ route.pc = "idle"
  /\ upstream.pids = <<5, 7, 5, 9>>
  /\ route.lost = {7}
  /\ route.all[2].project_name = Placeholder(7)
  /\ route.all[3].project_name = ProjectName(5)

\* C17: every funhouse request is answered with trees built by running the
\* spider during that request, and no cache entry holds trees.
C17_TreesRebuiltNeverCached ==
  /\ AggregateKey("funhouse") \notin DOMAIN cache
  /\ (route.kind = "funhouse" /\ route.pc = "idle" /\ route.response # NoEntry)
       => (route.served = "built" /\ route.ran = route.response.body.val.total)

\* C17 (amended): a funhouse request that finds no fresh funhouse response
\* in the cache runs the spider once per feature and stores its response,
\* the trees included, under the funhouse key with the default ttl; a
\* request that finds one is answered with the stored response and runs no
\* spider and asks upstream for nothing.
C17_TreesCachedWithResponse ==
  (route.kind = "funhouse" /\ route.pc = "idle" /\ route.response # NoEntry) =>
    LET key == AggregateKey("funhouse") IN
    /\ route.served \in {"built", "cached"}
    /\ key \in DOMAIN cache
    /\ cache[key].data = route.response.body
    /\ cache[key].ttl = CACHE_TTL
    /\ route.served = "built" =>
         /\ route.ran = Len(route.all)
         /\ route.ran = Len(route.response.body.val.features.active)
                          + Len(route.response.body.val.features.complete)
    /\ route.served = "cached" => (route.ran = 0 /\ route.sent = <<>>)

\* the second request is answered from the cache with a tree of two levels
C17_Witness ==
  /\ route.kind = "funhouse" /\ route.pc = "idle"
  /\ route.requests = 2
  /\ route.served = "cached"
  /\ route.response.body.val.features.active = <<Node(1, <<Node(2, <<>>)>>)>>

\* C18: the data of a cache entry is as setCachedData stored it, for as
\* long as the entry is in the Map.
C18_EntriesAsWritten ==
  \A key \in DOMAIN cache : cache[key] = written[key]

\* C19: a request whose first list page fails is answered with an error
\* response, and a request whose list pages arrive is answered with a 200
\* response whatever enrichment request (project, linked issue, notes) fails.
C19_ListFailureAborts ==
  (route.pc = "idle" /\ route.response # NoEntry /\ route.served # "cached") =>
    IF ~upstream.configured \/ route.cut = 1
    THEN route.response.status = 500
    ELSE route.response.status = 200

\* C20: the status report counts the entries of the Map and gives, for
\* each entry, its key, its age (now minus its timestamp) and the ttl it
\* was stored with.
C20_StatusReportsEntryTtl ==
  last.op = "status" =>
    LET report == last.result.val IN
    /\ report.totalEntries = Cardinality(DOMAIN cache)
    /\ {e.key : e \in report.entries} = DOMAIN cache
    /\ \A e \in report.entries :
         /\ e.age = now - cache[e.key].timestamp
         /\ e.ttl = cache[e.key].ttl

----------------------------------------------------------------------------
(* Claims about the depth bound and the visited set *)

\* the activation on level i of the stack runs at depth i - 1
DepthsInOrder == \A i \in 1..Len(stack) : stack[i].depth = i - 1

\* C21: an activation at depth >= maxDepth never gets past the guard (it
\* issues no notes lookup and runs no loop), the node it returns to its
\* caller has no children, and so no node of a tree under construction or
\* returned lies deeper than maxDepth below the root.
C21_DepthGuard ==
  /\ DepthsInOrder
  /\ \A i \in 1..Len(stack) :
       /\ stack[i].depth <= DefaultMaxDepth
       /\ stack[i].depth >= DefaultMaxDepth =>
            (stack[i].pc = "enter" /\ stack[i].linkedIssues = <<>>)
       /\ \A k \in 1..Len(stack[i].linkedIssues) :
            Height(stack[i].linkedIssues[k]) <= DefaultMaxDepth - stack[i].depth - 1
  /\ Done =>
       /\ Height(result) <= DefaultMaxDepth
       /\ \A k \in 1..Len(AtLevel(result, DefaultMaxDepth)) :
            AtLevel(result, DefaultMaxDepth)[k].linkedIssues = <<>>

\* issue 6 was reached at depth 5 and has been returned to the activation of
\* issue 5 without children, although it mentions #7; it was not expanded
C21_Witness ==
  /\ Len(stack) = DefaultMaxDepth
  /\ Top.issue.iid = DefaultMaxDepth
  /\ Top.linkedIssues = <<Node(DefaultMaxDepth + 1, <<>>)>>
  /\ issues = ChainIssues(DefaultMaxDepth + 2)
  /\ DefaultMaxDepth + 1 \notin SeqToSet(expansions)

----------------------------------------------------------------------------
(* Claims about concurrent calls of cachedGitlabApiCall *)

\* the calls for `key` that are suspended at their await
InFlightFor(key) == {call \in BagToSet(inFlight) : call.key = key}

\* C22: a cachedGitlabApiCall that misses issues its upstream request also
\* when another call for the same key is in flight; a response resumes
\* only its own call, which stores and returns the data of that response,
\* whatever entry an earlier response for the same key left (so the Map
\* holds the entry of the response that arrived last), and every other
\* call stays in flight and can still complete.
C22_RacingCallsBothComplete ==
  [][/\ (last'.op = "request" /\ InFlightFor(last'.key) # {}) =>
          /\ last'.sent = 1
          /\ inFlight' = inFlight (+) SetToBag({[key |-> last'.key, ttl |-> last'.ttl]})
     /\ last'.op = "response" =>
          LET call == [key |-> last'.key, ttl |-> last'.ttl] IN
          /\ BagIn(call, inFlight)
          /\ inFlight' = inFlight (-) SetToBag({call})
          /\ cache' = setCachedData(cache, call.key, last'.result, call.ttl, now)
          /\ last'.result \in ResponseValues
     /\ last.op = "response" =>
          \A call \in InFlightFor(last.key), data \in ResponseValues :
            ENABLED CallRespond(call, data)]_vars

\* two calls for one key both missed; the response of one has arrived and
\* is in the Map, the other call is still in flight
C22_Witness ==
  /\ last.op = "response"
  /\ InFlightFor(last.key) # {}
  /\ cache[last.key].data = last.result

\* a step of clearCache that dropped at least one entry
ClearStep == cleared' # cleared /\ cleared \subseteq cleared'

\* C27: clearCache empties the Map and leaves the calls in flight as they
\* are; the response of a call, whether or not the Map was cleared while
\* the call was in flight, is stored under its key and returned, so the
\* Map can hold an entry requested before the clear.
C27_ClearKeepsInFlight ==
  [][/\ ClearStep =>
          /\ cache' = EmptyMap
          /\ inFlight' = inFlight
     /\ (last'.op = "response" /\ written = EmptyMap) =>
          /\ BagIn([key |-> last'.key, ttl |-> last'.ttl], inFlight)
          /\ DOMAIN cache' = DOMAIN cache \cup {last'.key}
          /\ cache'[last'.key] =
               [data |-> last'.result, timestamp |-> now, ttl |-> last'.ttl]
          /\ last'.key \notin cleared']_vars

\* the step that led here was clearCache (nothing is stored, an entry was
\* dropped, no time has passed and the last step observed nothing), and a
\* call that began before it is still in flight
C27_Witness ==
  /\ now = 0 /\ last = NoOp
  /\ written = EmptyMap /\ cache = EmptyMap
  /\ cleared # {}
  /\ inFlight # EmptyBag

----------------------------------------------------------------------------
(* Claims about the effect of getCachedData on the Map *)

\* C24: getCachedData on a key whose entry has expired (its age has reached
\* the ttl recorded in it) removes that entry and returns null; on a key
\* whose entry is fresh, or that has no entry, it leaves the Map as it is;
\* the entries of the other keys are never changed.
C24_GetEvictsOnlyExpired ==
  [][last'.op = "get" =>
       IF last'.key \in DOMAIN cache /\ ~FreshByEntry(cache[last'.key], now)
       THEN /\ cache' = MapDelete(cache, last'.key)
            /\ last'.result = JsNull
       ELSE cache' = cache]_vars

----------------------------------------------------------------------------
(* Claims about the join after the fan-out *)

\* the project ids in the order their lookups settled
SettledOrder == [k \in 1..Len(route.results) |-> route.results[k].projectId]

\* the name the lookup of projectId returned
ResolvedFor(projectId) ==
  (CHOOSE r \in SeqToSet(route.results) : r.projectId = projectId).name

\* C23: whatever order the project lookups of a request settled in, each
\* project id settled once, and the join gives each issue the name its own
\* project's lookup returned: the resolved name, or the placeholder when
\* that lookup failed.  The answer is therefore a function of the list and
\* of the lookups that failed, not of the order.
C23_JoinKeyedById ==
  [][(route.pc = "join" /\ route'.pc # "join") =>
       LET projectIds == UniqueProjectIds(<<>>, route.all) IN
       /\ Distinct(SettledOrder)
       /\ SeqToSet(SettledOrder) = SeqToSet(projectIds)
       /\ \A k \in 1..Len(route.results) :
            route.results[k].name =
              IF route.results[k].projectId \in route.lost
              THEN Placeholder(route.results[k].projectId)
              ELSE ProjectName(route.results[k].projectId)
       /\ Len(route'.all) = Len(route.all)
       /\ \A i \in 1..Len(route.all) :
            route'.all[i] =
              WithProjectName(route.all[i], ResolvedFor(route.all[i].project_id))
       /\ route.kind = "issues" =>
            route'.response.body.val.issues =
              categorizeIssues([i \in 1..Len(route.all) |->
                WithProjectName(route.all[i], ResolvedFor(route.all[i].project_id))])]_vars

\* the lookups of the list [5, 7, 5, 9] were issued for 5, 7, 9 and have
\* settled in the order 9, 7, 5, the one for 7 with a failure
C23_Witness ==
  /\ route.pc = "join" /\ route.pending = {}
  /\ upstream.pids = <<5, 7, 5, 9>>
  /\ SettledOrder = <<9, 7, 5>>
  /\ route.lost = {7}
  /\ ResolvedFor(7) = Placeholder(7)
  /\ ResolvedFor(5) = ProjectName(5)

----------------------------------------------------------------------------
(* Claims about spidering a root again *)

\* C25: when every upstream request of the traversals so far succeeded, a
\* traversal of the root that follows a completed one (nothing has expired
\* or been cleared in between) issues no upstream request, and the tree it
\* returns is the tree the earlier traversal returned.
C25_RespiderFromCache ==
  (Len(runs) > 0 /\ failures = 0) =>
    /\ fetches = 0
    /\ Done => result = runs[Len(runs)]

\* the chain of 3 references with issue 1 also mentioning #3 in a note has
\* been spidered twice
C25_Witness ==
  /\ Done
  /\ Len(runs) = 1
  /\ failures = 0 /\ fetches = 0
  /\ issues = WithMention(ChainIssues(3), 1, 3, "note")
  /\ result = runs[1]
  /\ Height(result) = 3
  /\ expansions = <<1, 2, 3, 4>>

----------------------------------------------------------------------------
(* Claims about the pagination loop *)

\* the keys of the list pages requested upstream, in the order requested
PagesSent == SelectSeq(route.sent, LAMBDA key : key[1] = "list")

\* the first page that holds fewer than perPage items
ShortPage == (Len(upstream.pids) \div PerPage) + 1

InLoop == route.pc \in {"page", "pageWait"}

\* the iids of the first n issues of the upstream list are 1..n
FirstIssues(items, n) ==
  /\ Len(items) = n
  /\ \A i \in 1..n : items[i].iid = i /\ items[i].project_id = upstream.pids[i]

\* C26: the loop requests the pages 1, 2, 3, ... in this order, 100 issues
\* each; it takes no page after the first one with fewer than 100 issues,
\* and none after a page whose request failed; what it hands on is the
\* pages it received, concatenated in order; and it leaves the loop.
C26_PagesInOrderUntilShort ==
  /\ [](/\ PerPage = 100
        /\ \A k \in 1..Len(PagesSent) : PagesSent[k] = PageKey(route.kind, k)
        /\ InLoop =>
             /\ route.page <= ShortPage
             /\ Len(PagesSent) = IF route.pc = "page" THEN route.page - 1 ELSE route.page
             /\ FirstIssues(route.all, (route.page - 1) * PerPage)
        /\ (route.pc \in {"fanout", "join"}
              \/ (route.pc = "idle" /\ route.served = "built")) =>
             IF route.cut = 0
             THEN /\ Len(PagesSent) = ShortPage
                  /\ FirstIssues(route.all, Len(upstream.pids))
             ELSE /\ Len(PagesSent) = route.cut
                  /\ FirstIssues(route.all, (route.cut - 1) * PerPage))
  /\ (InLoop ~> ~InLoop)

\* a list of exactly two pages: pages 1, 2 and 3 were requested, page 3 came
\* back empty, and the answer holds the 200 issues
C26_Witness ==
  /\ route.pc = "idle" /\ route.served = "built"
  /\ Len(upstream.pids) = 2 * PerPage
  /\ Len(PagesSent) = 3
  /\ route.cut = 0
  /\ Len(route.all) = 2 * PerPage
  /\ route.response.body.val.total = 2 * PerPage

----------------------------------------------------------------------------
(* Claims about the visited set and repeated iids *)

\* the nodes of a tree in traversal order (parents before children,
\* children in order), each with its depth and whether it is a leaf
RECURSIVE Occurrences(_, _)
Occurrences(node, depth) ==
  <<[iid |-> node.issue, depth |-> depth, leaf |-> Len(node.linkedIssues) = 0]>> \o
    Concat([i \in 1..Len(node.linkedIssues) |->
              Occurrences(node.linkedIssues[i], depth + 1)])

Shallow(occ) == SelectSeq(occ, LAMBDA o : o.depth < DefaultMaxDepth)

\* C28: in a returned tree the visited set holds exactly the iids that were
\* expanded, which are the nodes above depth maxDepth; of an iid that occurs
\* more than once every occurrence but the last in traversal order is a
\* childless node at depth maxDepth; an iid expanded above depth maxDepth
\* occurs nowhere later.
C28_VisitedIsExpanded ==
  Done =>
    LET occ == Occurrences(result, 0) IN
    /\ visited = SeqToSet(expansions)
    /\ expansions = [k \in 1..Len(Shallow(occ)) |-> Shallow(occ)[k].iid]
    /\ \A i, j \in 1..Len(occ) :
         (i < j /\ occ[i].iid = occ[j].iid) =>
           occ[i].depth = DefaultMaxDepth /\ occ[i].leaf
    /\ \A i, j \in 1..Len(occ) :
         (i < j /\ occ[i].depth < DefaultMaxDepth) => occ[j].iid # occ[i].iid

\* an issue cut at depth maxDepth under one parent and expanded later under
\* another: it is twice in the tree and once in visited
C28_Witness ==
  /\ Done /\ failures = 0
  /\ LET occ == Occurrences(result, 0) IN
     \E i, j \in 1..Len(occ) :
       /\ i < j /\ occ[i].iid = occ[j].iid
       /\ occ[i].depth = DefaultMaxDepth
       /\ occ[j].depth < DefaultMaxDepth /\ ~occ[j].leaf
       /\ occ[j].iid \in visited

----------------------------------------------------------------------------
(* Claims about the roots of one funhouse request *)

\* the iids a tree holds, and those it holds above depth maxDepth (the
\* expanded ones)
TreeIids(tree) == SeqToSet(Preorder(tree))
TreeExpanded(tree) ==
  LET occ == Shallow(Occurrences(tree, 0)) IN {occ[k].iid : k \in 1..Len(occ)}

\* an issue expanded in the tree of feature a and referenced by an expanded
\* issue of the tree of feature b
SharedBy(a, b) ==
  {x \in TreeExpanded(route.trees[a]) :
     \E p \in TreeExpanded(route.trees[b]) : x \in Refs(p)}

\* each root starts with an empty visited set and its own iid as root, and
\* a finished tree leaves in visited its own expanded iids only
FreshPerRoot ==
  /\ (route.pc = "spider" /\ Len(stack) = 1 /\ Top.pc = "enter") =>
       visited = {} /\ rootIssueId = Top.issue.iid
  /\ (route.pc = "spider" /\ result # NoEntry) =>
       /\ visited = TreeExpanded(result)
       /\ rootIssueId = result.issue
       /\ rootIssueId = route.all[route.next].iid

\* C30 as stated: every root is spidered with a fresh visited set and its
\* own root iid, so an issue expanded in one feature's tree is expanded
\* again in every other feature's tree that references it.
C30_ExpandedInEveryTree ==
  /\ FreshPerRoot
  /\ (route.pc = "spider" /\ failures = 0) =>
       \A a, b \in 1..Len(route.trees) :
         a # b => SharedBy(a, b) \subseteq TreeExpanded(route.trees[b])

\* C30: every root is spidered with a fresh visited set and its own root
\* iid, so an issue expanded in one feature's tree appears again in every
\* other feature's tree that references it, and is expanded again there
\* unless that tree reaches it at depth maxDepth only.
C30_FreshVisitedPerRoot ==
  /\ FreshPerRoot
  /\ (route.pc = "spider" /\ failures = 0) =>
       \A a, b \in 1..Len(route.trees) :
         a # b =>
           \A x \in SharedBy(a, b) :
             LET occ == Occurrences(route.trees[b], 0) IN
             /\ x \in TreeIids(route.trees[b])
             /\ \/ x \in TreeExpanded(route.trees[b])
                \/ \A k \in 1..Len(occ) :
                     occ[k].iid = x => occ[k].depth = DefaultMaxDepth

\* features 1 and 2 on the chain 1 -> 2 -> 3, in a request that rebuilds
\* after an earlier one: issue 3 is expanded under both roots
C30_Witness ==
  /\ route.pc = "spider" /\ failures = 0
  /\ route.requests = 1
  /\ issues = ChainIssues(2)
  /\ Len(route.trees) = 2
  /\ route.trees[1] = Node(1, <<Node(2, <<Node(3, <<>>)>>)>>)
  /\ route.trees[2] = Node(2, <<Node(3, <<>>)>>)
  /\ 3 \in SharedBy(1, 2) \cap TreeExpanded(route.trees[2])

----------------------------------------------------------------------------
(* Claims about degraded responses *)

\* a response built from a truncated list, or with a placeholder in place
\* of a project name
Degraded(data) ==
  \/ data.val.total < Len(UpstreamList(route.kind))
  \/ /\ route.kind = "issues"
     /\ \E issue \in IssuesIn(data) :
          issue.project_name = Placeholder(issue.project_id)

\* the page whose request failed, or a page after it, holds issues
Truncated ==
  route.cut # 0 /\ Len(UpstreamList(route.kind)) > (route.cut - 1) * PerPage

\* the handler has just answered with a response it built after a list page
\* or a project lookup failed
DegradedAnswer ==
  /\ route.pc = "idle" /\ route.served = "built"
  /\ route.cut # 0 \/ route.lost # {}

\* the aggregate entry holds a degraded response and has not expired
DegradedStored ==
  LET key == AggregateKey(route.kind) IN
  /\ key \in DOMAIN cache
  /\ Degraded(cache[key].data)
  /\ FreshByEntry(cache[key], now)

\* C29: a response built after a list page or a project lookup failed is
\* stored under the aggregate key like any other, and while that entry has
\* not expired every request is answered with it and asks upstream for
\* nothing, whether or not upstream would answer now.
C29_DegradedResponseServed ==
  /\ [](DegradedAnswer =>
          LET key == AggregateKey(route.kind) IN
          /\ route.response.status = 200
          /\ (Truncated \/ (route.kind = "issues" /\ route.lost # {})) =>
               Degraded(route.response.body)
          /\ key \in DOMAIN cache
          /\ cache[key].data = route.response.body
          /\ cache[key].ttl = CACHE_TTL)
  /\ [][(route.pc = "idle" /\ DegradedStored /\ route' # route) =>
          /\ route'.pc = "idle"
          /\ route'.requests = route.requests + 1
          /\ route'.served = "cached"
          /\ route'.response = Response(200, cache[AggregateKey(route.kind)].data)
          /\ route'.sent = <<>>
          /\ cache' = cache]_vars

\* the request for project 7 failed while the first response was built; the
\* second request is answered with that response, placeholder included
C29_Witness ==
  /\ route.pc = "idle" /\ route.served = "cached"
  /\ route.kind = "issues" /\ upstream.pids = <<5, 7>>
  /\ failed = <<Failure("project", 7, 7)>>
  /\ route.sent = <<>>
  /\ \E issue \in IssuesIn(route.response.body) :
       issue.project_id = 7 /\ issue.project_name = Placeholder(7)

====
